---- MODULE Spec2Model ----
(***************************************************************************)
(* A model of generate_clickstream.py: the Olist clickstream generator.    *)
(*                                                                         *)
(* The script is one linear pass: load and join four tables, filter the    *)
(* delivered orders, emit one purchase-funnel session per selected order,  *)
(* emit NUM_NON_CONV_SESSIONS browsing sessions, sort the accumulated      *)
(* events by event_ts and write them.  Each loop iteration is one action.  *)
(*                                                                         *)
(* Randomness.  random.seed(42) fixes the stream behind random.choice,     *)
(* random.randint and random.random: the k-th draw of a run is a function  *)
(* of k.  The model keeps that stream as `tape`, an unknown but fixed      *)
(* sequence of quantised uniform variates chosen in Init, and `rng`, the   *)
(* number of draws consumed.  uuid.uuid4() and DataFrame.sample(           *)
(* random_state=None) are not seeded: they are nondeterministic choices.   *)
(*                                                                         *)
(* Input tables.  order_id, customer_id and product_id are keys of their   *)
(* tables (each value occurs in one row), as in the Olist data set.        *)
(***************************************************************************)
EXTENDS Integers, Sequences, FiniteSets, TLC

\* ------------------------------------------------------------- bounds
\* rows of the orders table
NumOrders == 3
\* period of the seeded stream
TapeLen == 2
\* a seeded draw is one of the levels 0..DrawMax of the uniform variate
DrawMax == 2
\* the levels the seeded stream is made of: the lowest, a middle one and the
\* highest of 0..DrawMax
DrawLevels == {0, DrawMax \div 2, DrawMax}

\* order items of the probed order in SpecSession
MaxItems == 4

\* ------------------------------------------------- program constants
\* MAX_PURCHASE_SESSIONS = 10000, scaled so that the cap binds when every
\* order of the table is delivered
MAX_PURCHASE_SESSIONS == 2
\* NUM_NON_CONV_SESSIONS = 8000, scaled
NUM_NON_CONV_SESSIONS == 1

device_types == <<"desktop", "mobile", "tablet">>
traffic_sources == <<"direct", "seo", "ads", "email", "social">>

\* Python's None, pandas' NaN (a missing value of an object column) and NaT
None == "<None>"
NaN == "<NaN>"
NaT == -1

\* ------------------------------------------------------- time stamps
\* A Timestamp is a number of seconds since 1970-01-01 00:00:00.
\* datetime's proleptic Gregorian calendar: days since the epoch of y-m-d.
DaysFromCivil(y, m, d) ==
  LET yy  == IF m <= 2 THEN y - 1 ELSE y
      era == yy \div 400
      yoe == yy - era * 400
      mp  == IF m > 2 THEN m - 3 ELSE m + 9
      doy == (153 * mp + 2) \div 5 + d - 1
      doe == yoe * 365 + yoe \div 4 - yoe \div 100 + doy
  IN  era * 146097 + doe - 719468

\* <<y, m, d>> of a number of days since the epoch
CivilFromDays(z0) ==
  LET z   == z0 + 719468
      era == z \div 146097
      doe == z - era * 146097
      yoe == (doe - doe \div 1460 + doe \div 36524 - doe \div 146096) \div 365
      doy == doe - (365 * yoe + yoe \div 4 - yoe \div 100)
      mp  == (5 * doy + 2) \div 153
      d   == doy - (153 * mp + 2) \div 5 + 1
      m   == IF mp < 10 THEN mp + 3 ELSE mp - 9
      y   == yoe + era * 400 + (IF m <= 2 THEN 1 ELSE 0)
  IN  <<y, m, d>>

\* the decimal digits of v, zero-padded to width w, most significant first
Digits(v, w) == [j \in 1..w |-> (v \div (10 ^ (w - j))) % 10]

\* ts.isoformat(sep=" "): "YYYY-MM-DD HH:MM:SS" as the sequence of its 14
\* digits (the separators stand at fixed places and decide no comparison);
\* NaT.isoformat() is "NaT", the empty digit sequence here.
isoformat(ts) ==
  IF ts = NaT THEN <<>>
  ELSE LET c   == CivilFromDays(ts \div 86400)
           sod == ts % 86400
       IN  Digits(c[1], 4) \o Digits(c[2], 2) \o Digits(c[3], 2)
           \o Digits(sod \div 3600, 2) \o Digits((sod % 3600) \div 60, 2)
           \o Digits(sod % 60, 2)

\* the number written by the two digits s[a], s[a + 1]
Num(s, a) == s[a] * 10 + s[a + 1]

\* pd.to_datetime(column, errors="coerce") on one cell: a well-formed
\* "YYYY-MM-DD HH:MM:SS" parses, anything else becomes NaT
to_datetime(s) ==
  IF Len(s) # 14 THEN NaT
  ELSE DaysFromCivil(Num(s, 1) * 100 + Num(s, 3), Num(s, 5), Num(s, 7)) * 86400
       + Num(s, 9) * 3600 + Num(s, 11) * 60 + Num(s, 13)

\* Python's str comparison of two event_ts strings, as sort_values compares
\* an object column: lexicographic, a proper prefix first
RECURSIVE StrLeqFrom(_, _, _)
StrLeqFrom(a, b, j) ==
  IF j > Len(a) THEN TRUE
  ELSE IF j > Len(b) THEN FALSE
  ELSE IF a[j] # b[j] THEN a[j] < b[j]
  ELSE StrLeqFrom(a, b, j + 1)

StrLeq(a, b) == StrLeqFrom(a, b, 1)

\* ------------------------------------------------------ input tables
\* olist_orders_dataset.csv has NumOrders rows; row n has order id
\* OrderIds[n] and, where its time stamp parses, the purchase time
\* PurchaseTime(n): 2018-01-01 00:10:00 and the same time on the days after
OrderIds == <<"o1", "o2", "o3", "o4", "o5">>
OrderCustomer == <<"c1", "c2", "c9", "c1", "c2">>
T0 == DaysFromCivil(2018, 1, 1) * 86400 + 600
PurchaseTime(n) == T0 + (n - 1) * 86400

\* what row n of the orders file may hold, as <<order_status, whether the
\* order_purchase_timestamp cell parses>>: a delivered order, or else an
\* order of another status (odd rows) or one with a broken time stamp
OrderKinds(n) ==
  {<<"delivered", TRUE>>,
   IF n % 2 = 1 THEN <<"canceled", TRUE>> ELSE <<"delivered", FALSE>>}

OrderRow(n, kind) ==
  [order_id |-> OrderIds[n], customer_id |-> OrderCustomer[n],
   order_status |-> kind[1],
   order_purchase_timestamp |->
     IF kind[2] THEN isoformat(PurchaseTime(n)) ELSE <<>>]

OrdersTables ==
  {[n \in 1..NumOrders |-> OrderRow(n, k[n])] :
     k \in {f \in [1..NumOrders -> UNION {OrderKinds(m) : m \in 1..NumOrders}] :
              \A n \in 1..NumOrders : f[n] \in OrderKinds(n)}}

\* olist_order_items_dataset.csv: o1 has four items, o2 two, o3 none, o4
\* one
order_items ==
  << [order_id |-> "o1", product_id |-> "p1"],
     [order_id |-> "o1", product_id |-> "p2"],
     [order_id |-> "o1", product_id |-> "p1"],
     [order_id |-> "o1", product_id |-> "p1"],
     [order_id |-> "o2", product_id |-> "p3"],
     [order_id |-> "o2", product_id |-> "p1"],
     [order_id |-> "o4", product_id |-> "p2"] >>

\* olist_customers_dataset.csv and olist_products_dataset.csv, each either
\* filled or holding its header alone
CustomersFull ==
  << [customer_id |-> "c1", customer_city |-> "sao paulo", customer_state |-> "SP"],
     [customer_id |-> "c2", customer_city |-> "curitiba", customer_state |-> "PR"] >>
ProductsFull ==
  << [product_id |-> "p1"], [product_id |-> "p2"], [product_id |-> "p3"] >>
Catalogs ==
  { [customers |-> CustomersFull, products |-> ProductsFull],
    [customers |-> <<>>, products |-> ProductsFull],
    [customers |-> CustomersFull, products |-> <<>>] }

VARIABLES
  orders_csv,        \* the orders file as read
  customers,         \* the customers table
  products,          \* the products table
  tape,              \* the stream random.seed(42) fixes
  pc,                \* "load", "funnel", "browse", "finalize", "done", "error"
  delivered_orders,  \* the filtered (and capped) delivered orders
  i,                 \* the running loop's index
  rng,               \* draws consumed from the seeded stream (mod TapeLen)
  uuids,             \* uuid4 values issued
  events,            \* the accumulated event list
  sessions,          \* history: the sessions generated, in order
  written,           \* whether olist_clickstream_events.csv was written
  output,            \* its rows
  eventsB, iB, rngB, uuidsB, pcB,   \* a second run on the same input (SpecPair)
  probe              \* the order and draws of a lone funnel session (SpecSession)

vars == <<orders_csv, customers, products, tape, pc, delivered_orders, i, rng,
          uuids, events, sessions, written, output,
          eventsB, iB, rngB, uuidsB, pcB, probe>>

inputs == <<orders_csv, customers, products, tape>>
runB == <<eventsB, iB, rngB, uuidsB, pcB>>

\* --------------------------------------------------------- the loader
\* orders.merge(customers, on="customer_id", how="left"): city and state of
\* the order's customer, NaN where the customer is unknown
CustomerField(cust, cid, f) ==
  IF \E n \in 1..Len(cust) : cust[n].customer_id = cid
  THEN cust[CHOOSE n \in 1..Len(cust) :
              /\ cust[n].customer_id = cid
              /\ \A m \in 1..(n - 1) : cust[m].customer_id # cid][f]
  ELSE NaN

merge_orders(ords, cust) ==
  [n \in 1..Len(ords) |->
    [order_id |-> ords[n].order_id,
     customer_id |-> ords[n].customer_id,
     order_status |-> ords[n].order_status,
     order_purchase_timestamp |-> to_datetime(ords[n].order_purchase_timestamp),
     customer_city |-> CustomerField(cust, ords[n].customer_id, "customer_city"),
     customer_state |-> CustomerField(cust, ords[n].customer_id, "customer_state")]]

\* a mutant: the rows whose time stamp did not parse are kept
delivered_filter_keeping_NaT(ords) ==
  SelectSeq(ords, LAMBDA r : r.order_status = "delivered")

\* orders[orders["order_status"] == "delivered"].dropna(subset=[...])
delivered_filter(ords) ==
  SelectSeq(ords, LAMBDA r : /\ r.order_status = "delivered"
                             /\ r.order_purchase_timestamp # NaT)

\* a mutant: the check for an empty frame is gone
never_empty(df) == FALSE

\* if delivered_orders.empty: raise RuntimeError(...)
raise_if_empty(df) == df = <<>>

\* DataFrame.sample(n): n rows of df, drawn without replacement, in the
\* order drawn
sample(df, n) ==
  {[j \in 1..n |-> df[f[j]]] :
     f \in {g \in [1..n -> 1..Len(df)] :
              \A a, b \in 1..n : a # b => g[a] # g[b]}}

\* if len(delivered_orders) > MAX_PURCHASE_SESSIONS: sample(n=MAX..., random_state=42)
\* The seed fixes which rows; the model leaves the choice open.
capped(df) ==
  IF Len(df) > MAX_PURCHASE_SESSIONS THEN sample(df, MAX_PURCHASE_SESSIONS)
  ELSE {df}

\* column.dropna().unique().tolist()
RECURSIVE unique(_)
unique(s) ==
  IF s = <<>> THEN <<>>
  ELSE LET r == unique(SubSeq(s, 1, Len(s) - 1))
           x == s[Len(s)]
       IN  IF \E n \in 1..Len(r) : r[n] = x THEN r ELSE Append(r, x)

product_ids == unique([n \in 1..Len(products) |-> products[n].product_id])
customers_list == unique([n \in 1..Len(customers) |-> customers[n].customer_id])

\* ------------------------------------------------------- random, uuid
\* a mutant: random.seed() without its argument, the stream starts at a
\* place the system's clock decides
random_reseeded(tp, pos, n) ==
  {[j \in 1..n |-> tp[((pos + o + j - 1) % TapeLen) + 1]] : o \in 0..(TapeLen - 1)}

\* the next n variates of the seeded stream after pos draws
random_stream(tp, pos, n) == {[j \in 1..n |-> tp[((pos + j - 1) % TapeLen) + 1]]}

\* random.randint(lo, hi), random.choice(seq) and random.random() (in
\* hundredths) of the variate u
randint(lo, hi, u) == lo + (u * (hi - lo)) \div DrawMax
choice(seq, u) == seq[1 + (u * (Len(seq) - 1)) \div DrawMax]
random(u) == (u * 99) \div DrawMax

\* a mutant: every call returns the same identifier
uuid4_constant(n) == 0

\* str(uuid.uuid4()): the n-th identifier issued, unlike every other one
uuid4(n) == n

\* ----------------------------------------------------------- make_event
make_event(event_type, session_id, ts, customer_id, product_id, order_id, city, state, is_auth, traffic_source, device_type, eid) ==
  [event_id |-> uuid4(eid),
   session_id |-> session_id,
   customer_id |-> IF customer_id # None THEN customer_id ELSE "",
   event_type |-> event_type,
   event_ts |-> isoformat(ts),
   product_id |-> IF product_id # None THEN product_id ELSE "",
   order_id |-> IF order_id # None THEN order_id ELSE "",
   device_type |-> IF device_type \in {None, ""} THEN "" ELSE device_type,
   traffic_source |-> IF traffic_source \in {None, ""} THEN "" ELSE traffic_source,
   is_authenticated |-> IF is_auth THEN 1 ELSE 0,
   customer_city |-> IF city \in {None, ""} THEN "" ELSE city,
   customer_state |-> IF state \in {None, ""} THEN "" ELSE state]

\* --------------------------------------------- purchase-funnel sessions
min(a, b) == IF a < b THEN a ELSE b

\* Timestamp + timedelta: NaT stays NaT
Plus(ts, seconds) == IF ts = NaT THEN NaT ELSE ts + seconds

OrderItemsOf(order_id) == SelectSeq(order_items, LAMBDA r : r.order_id = order_id)

\* the sum of the randint(5, 40) steps drawn from d[a..b]
RECURSIVE Steps(_, _, _)
Steps(d, a, b) == IF a > b THEN 0 ELSE Steps(d, a, b - 1) + randint(5, 40, d[b])

\* a mutant: every order item is viewed
view_all(oi) == Len(oi)

\* n=min(3, len(oi)) of oi.sample
views_of(oi) == min(3, Len(oi))

\* a mutant: the base time is minutes after the purchase
base_after(purchase_time, u) == Plus(purchase_time, 60 * randint(5, 40, u))

\* a mutant: the offset is taken in seconds
base_seconds(purchase_time, u) == Plus(purchase_time, 0 - randint(5, 40, u))

\* base_time = purchase_time - timedelta(minutes=random.randint(5, 40))
funnel_base_time(purchase_time, u) == Plus(purchase_time, 0 - 60 * randint(5, 40, u))

\* seeded draws of one funnel session with k viewed products: device,
\* source, the base offset, and a step after each event up to add_to_cart
FunnelDraws(k) == 5 + k

\* uuid4 values of one funnel session: the session's and one per event
FunnelUuids(k) == 5 + k

\* One iteration of the funnel loop past its `continue`: the events
\* appended for the order `row`, oi_sample its sampled items, d the seeded
\* draws in call order, u0 the uuid4 values issued before.
funnel_session(row, oi_sample, d, u0) ==
  LET k == Len(oi_sample)
      sess_id == uuid4(u0 + 1)
      device == choice(device_types, d[1])
      source == choice(traffic_sources, d[2])
      is_auth == TRUE
      purchase_time == row.order_purchase_timestamp
      base_time == funnel_base_time(purchase_time, d[3])
      ev(etype, ts, pid, oid, n) ==
        make_event(etype, sess_id, ts, row.customer_id, pid, oid,
                   row.customer_city, row.customer_state, is_auth, source,
                   device, u0 + 1 + n)
  IN  << ev("page_view", base_time, None, None, 1) >>
      \o [j \in 1..k |->
            ev("view_product", Plus(base_time, Steps(d, 4, 3 + j)),
               oi_sample[j].product_id, None, 1 + j)]
      \o << ev("add_to_cart", Plus(base_time, Steps(d, 4, 4 + k)),
               oi_sample[1].product_id, None, 2 + k),
            ev("checkout", Plus(base_time, Steps(d, 4, 5 + k)), None, None, 3 + k),
            ev("purchase", purchase_time, None, row.order_id, 4 + k) >>

\* -------------------------------------------------- browsing sessions
\* the most seeded draws one browsing session makes: base time (2), device,
\* source, is_auth, customer, steps, and three per step of at most six
BrowseDraws == 25

\* a mutant: the last branch is a checkout
step_type_checkout(r) ==
  IF r < 40 THEN "page_view" ELSE IF r < 75 THEN "view_product" ELSE "checkout"

\* r < 0.4: page_view; r < 0.75: view_product; else add_to_cart
step_type(r) ==
  IF r < 40 THEN "page_view" ELSE IF r < 75 THEN "view_product" ELSE "add_to_cart"

\* The step loop: n steps left, p the next draw of d, cur the clock, c the
\* session's fields, e the uuid4 values issued, evs the events appended so
\* far.  ok is FALSE where random.choice(product_ids) raised on an empty
\* list; the events appended before stay appended.
RECURSIVE browse_steps(_, _, _, _, _, _, _)
browse_steps(n, p, cur, c, d, e, evs) ==
  IF n = 0 THEN [evs |-> evs, p |-> p, e |-> e, ok |-> TRUE]
  ELSE LET etype == step_type(random(d[p]))
       IN  IF etype = "page_view"
           THEN browse_steps(n - 1, p + 2, Plus(cur, randint(5, 60, d[p + 1])), c, d,
                  e + 1,
                  Append(evs, make_event(etype, c.sess_id, cur, c.customer_id, None,
                                         None, c.city, c.state, c.is_auth,
                                         c.source, c.device, e + 1)))
           ELSE IF product_ids = <<>>
           THEN [evs |-> evs, p |-> p + 1, e |-> e, ok |-> FALSE]
           ELSE browse_steps(n - 1, p + 3, Plus(cur, randint(5, 60, d[p + 2])), c, d,
                  e + 1,
                  Append(evs, make_event(etype, c.sess_id, cur, c.customer_id,
                                         choice(product_ids, d[p + 1]),
                                         None, c.city, c.state, c.is_auth,
                                         c.source, c.device, e + 1)))

\* One iteration of the browsing loop for the reference order base_order.
browse_session(base_order, d, u0) ==
  LET base_time == Plus(base_order.order_purchase_timestamp,
                        0 - (86400 * randint(1, 60, d[1])
                             + 60 * randint(0, 1440, d[2])))
      sess_id == uuid4(u0 + 1)
      device == choice(device_types, d[3])
      source == choice(traffic_sources, d[4])
      is_auth == random(d[5]) < 40
      known == is_auth /\ customers_list # <<>>
      customer_id == IF known THEN choice(customers_list, d[6]) ELSE None
      found == \E n \in 1..Len(customers) : customers[n].customer_id = customer_id
      city == IF known /\ found
              THEN CustomerField(customers, customer_id, "customer_city") ELSE None
      state == IF known /\ found
               THEN CustomerField(customers, customer_id, "customer_state") ELSE None
      p == IF known THEN 7 ELSE 6
      steps == randint(2, 6, d[p])
      c == [sess_id |-> sess_id, device |-> device, source |-> source,
            is_auth |-> is_auth, customer_id |-> customer_id,
            city |-> city, state |-> state]
      r == browse_steps(steps, p + 1, base_time, c, d, u0 + 1, <<>>)
  IN  [evs |-> r.evs, used |-> r.p - 1, e |-> r.e, ok |-> r.ok,
       sess_id |-> sess_id, is_auth |-> is_auth]

\* ---------------------------------------------------------- serializer
\* a mutant: sort_values without inplace=True leaves the frame as it was
sort_not_in_place(evs) == {evs}

\* the row numbers `sorted` (ascending by key) with row n put in after the
\* rows whose key is not greater, searching down from place j
RECURSIVE insert(_, _, _, _)
insert(sorted, keys, n, j) ==
  IF j = 0 \/ StrLeq(keys[sorted[j]], keys[n])
  THEN SubSeq(sorted, 1, j) \o <<n>> \o SubSeq(sorted, j + 1, Len(sorted))
  ELSE insert(sorted, keys, n, j - 1)

\* the row numbers 1..n by ascending key
RECURSIVE argsort(_, _)
argsort(keys, n) ==
  IF n = 0 THEN <<>> ELSE insert(argsort(keys, n - 1), keys, n, n - 1)

\* the rows that may stand at place j of the sorted frame: those of the run
\* of equal keys around place j of the ascending order `by`
RECURSIVE RunFrom(_, _, _, _)
RunFrom(by, keys, j, step) ==
  IF /\ j + step \in 1..Len(by)
     /\ keys[by[j + step]] = keys[by[j]]
  THEN {by[j]} \cup RunFrom(by, keys, j + step, step)
  ELSE {by[j]}

RowsAt(by, keys, j) == RunFrom(by, keys, j, 1) \cup RunFrom(by, keys, j, 0 - 1)

RECURSIVE Arrange(_, _, _, _)
Arrange(by, keys, j, used) ==
  IF j > Len(by) THEN {<<>>}
  ELSE UNION {{<<n>> \o t : t \in Arrange(by, keys, j + 1, used \cup {n})} :
                n \in RowsAt(by, keys, j) \ used}

\* events_df.sort_values("event_ts", inplace=True): the rows by ascending
\* event_ts string; the default sort is not stable, so rows with equal
\* event_ts may come in any order
sort_values(evs) ==
  {[j \in 1..Len(evs) |-> evs[f[j]]] :
     f \in UNION {UNION {Arrange(by, keys, 1, {}) : by \in {argsort(keys, Len(keys))}} :
                    keys \in {<<>> \o [n \in 1..Len(evs) |-> evs[n].event_ts]}}}

\* ------------------------------------------------------------ the run
InitRun ==
  /\ delivered_orders = <<>>
  /\ i = 1
  /\ rng = 0
  /\ uuids = 0
  /\ events = <<>>
  /\ sessions = <<>>
  /\ written = FALSE
  /\ output = <<>>
  /\ eventsB = <<>> /\ iB = 1 /\ rngB = 0 /\ uuidsB = 100 /\ pcB = "funnel"
  /\ probe = <<>>

Init ==
  /\ orders_csv \in OrdersTables
  /\ \E c \in Catalogs : customers = c.customers /\ products = c.products
  /\ tape \in [1..TapeLen -> DrawLevels]
  /\ pc = "load"
  /\ InitRun

\* after the funnel loop's last iteration the browsing loop starts, and
\* after that one's last the script sorts and writes
AfterFunnel == IF NUM_NON_CONV_SESSIONS >= 1 THEN "browse" ELSE "finalize"

\* Lines 20-77: read, project, merge, filter, raise on no delivered order,
\* cap.
Load ==
  /\ pc = "load"
  /\ \E d \in {delivered_filter(merge_orders(orders_csv, customers))} :
       IF raise_if_empty(d)
       THEN pc' = "error" /\ delivered_orders' = d
       ELSE \E sel \in capped(d) :
              /\ delivered_orders' = sel
              /\ pc' = IF sel = <<>> THEN AfterFunnel ELSE "funnel"
  /\ UNCHANGED <<inputs, i, rng, uuids, events, sessions, written, output, runB, probe>>

\* One iteration of the funnel loop for the order `row`, given the seeded
\* stream tp at r draws, u uuid4 values issued and n events appended: the
\* ways it may end, each with the events it appends (none where the order
\* has no items and the loop continues).
funnel_iteration(row, oi, tp, r, u, n) ==
  IF oi = <<>>
  THEN {[evs |-> <<>>, rng |-> r, uuids |-> u, log |-> <<>>]}
  ELSE {[evs |-> funnel_session(row, c[1], c[2], u),
         rng |-> (r + FunnelDraws(Len(c[1]))) % TapeLen,
         uuids |-> u + FunnelUuids(Len(c[1])),
         log |-> <<[kind |-> "funnel", session_id |-> uuid4(u + 1),
                    order_id |-> row.order_id, first |-> n + 1,
                    is_auth |-> TRUE]>>] :
          c \in UNION {{<<oi_sample, d>> :
                          d \in random_stream(tp, r, FunnelDraws(Len(oi_sample)))} :
                       oi_sample \in sample(oi, views_of(oi))}}

\* Lines 115-197: one iteration of the funnel loop.
Funnel ==
  /\ pc = "funnel"
  /\ i <= Len(delivered_orders)
  /\ \E o \in funnel_iteration(delivered_orders[i],
                               OrderItemsOf(delivered_orders[i].order_id),
                               tape, rng, uuids, Len(events)) :
       /\ events' = events \o o.evs
       /\ rng' = o.rng
       /\ uuids' = o.uuids
       /\ sessions' = sessions \o o.log
  /\ i' = IF i = Len(delivered_orders) THEN 1 ELSE i + 1
  /\ pc' = IF i = Len(delivered_orders) THEN AfterFunnel ELSE "funnel"
  /\ UNCHANGED <<inputs, delivered_orders, written, output, runB, probe>>

\* Lines 204-207
base_orders_source ==
  IF delivered_orders = <<>>
  THEN merge_orders(orders_csv, customers) ELSE delivered_orders

\* Lines 209-264: one iteration of the browsing loop.  sample(1) of an
\* empty frame raises.
Browse ==
  /\ pc = "browse"
  /\ i <= NUM_NON_CONV_SESSIONS
  /\ IF base_orders_source = <<>>
     THEN /\ pc' = "error"
          /\ UNCHANGED <<i, rng, uuids, events, sessions>>
     ELSE \E base \in sample(base_orders_source, 1) :
          \E d \in random_stream(tape, rng, BrowseDraws) :
          \E s \in {browse_session(base[1], d, uuids)} :
                /\ events' = events \o s.evs
                /\ rng' = (rng + s.used) % TapeLen
                /\ uuids' = s.e
                /\ sessions' = Append(sessions,
                     [kind |-> "browse", session_id |-> s.sess_id,
                      order_id |-> "", first |-> Len(events) + 1,
                      is_auth |-> s.is_auth])
                /\ i' = IF s.ok /\ i < NUM_NON_CONV_SESSIONS THEN i + 1 ELSE 1
                /\ pc' = IF ~s.ok THEN "error"
                         ELSE IF i = NUM_NON_CONV_SESSIONS THEN "finalize"
                         ELSE "browse"
  /\ UNCHANGED <<inputs, delivered_orders, written, output, runB, probe>>

\* Lines 272-278: pd.DataFrame(events) of an empty list has no event_ts
\* column, and sort_values raises.
Finalize ==
  /\ pc = "finalize"
  /\ IF events = <<>>
     THEN pc' = "error" /\ UNCHANGED <<written, output>>
     ELSE /\ output' \in sort_values(events)
          /\ written' = TRUE
          /\ pc' = "done"
  /\ UNCHANGED <<inputs, delivered_orders, i, rng, uuids, events, sessions, runB, probe>>

Next == Load \/ Funnel \/ Browse \/ Finalize

Spec == Init /\ [][Next]_vars

\* --------------------------------------- two runs on the same input
\* A second run of the script on the same files: the same seeded stream
\* from its start, the same rows from the seeded sample of the cap, its own
\* uuid4 values and its own unseeded oi.sample.  Its funnel loop runs here
\* once the first run's has ended.
InitPair ==
  /\ orders_csv \in OrdersTables
  /\ customers = CustomersFull /\ products = ProductsFull
  /\ tape \in [1..TapeLen -> DrawLevels]
  /\ pc = "load"
  /\ InitRun

FunnelB ==
  /\ pc = AfterFunnel
  /\ pcB = "funnel"
  /\ iB <= Len(delivered_orders)
  /\ \E o \in funnel_iteration(delivered_orders[iB],
                               OrderItemsOf(delivered_orders[iB].order_id),
                               tape, rngB, uuidsB, Len(eventsB)) :
       /\ eventsB' = eventsB \o o.evs
       /\ rngB' = o.rng
       /\ uuidsB' = o.uuids
  /\ iB' = iB + 1
  /\ pcB' = IF iB = Len(delivered_orders) THEN "done" ELSE "funnel"
  /\ UNCHANGED <<inputs, pc, delivered_orders, i, rng, uuids, events, sessions,
                 written, output, probe>>

NextPair == Load \/ Funnel \/ FunnelB

SpecPair == InitPair /\ [][NextPair]_vars

\* ------------------------------------------- one funnel session, alone
\* The funnel loop's body on one delivered order with n order items, each
\* of its seeded draws at either end of its range.
ProbeProducts == <<"p1", "p2", "p1", "p1", "p3", "p2">>
ProbeItems(n) == [j \in 1..n |-> [order_id |-> "o1", product_id |-> ProbeProducts[j]]]
ProbeRow == merge_orders(<<OrderRow(1, <<"delivered", TRUE>>)>>, CustomersFull)[1]

InitSession ==
  /\ orders_csv = <<OrderRow(1, <<"delivered", TRUE>>)>>
  /\ customers = CustomersFull /\ products = ProductsFull
  /\ tape = [n \in 1..TapeLen |-> 0]
  /\ pc = "probe"
  /\ InitRun

ProbeSession ==
  /\ pc = "probe"
  /\ \E n \in 0..MaxItems :
     \E oi_sample \in sample(ProbeItems(n), views_of(ProbeItems(n))) :
     \E d \in [1..FunnelDraws(Len(oi_sample)) -> {0, DrawMax}] :
       /\ probe' = [items |-> n, oi_sample |-> oi_sample, d |-> d]
       /\ events' = IF n = 0 THEN <<>> ELSE funnel_session(ProbeRow, oi_sample, d, 0)
  /\ pc' = "made"
  /\ UNCHANGED <<inputs, delivered_orders, i, rng, uuids, sessions, written, output, runB>>

NextSession == ProbeSession

SpecSession == InitSession /\ [][NextSession]_vars

\* ------------------------------------------------------------- claims
\* the parsed event_ts of each event
Times(evs) == <<>> \o [n \in 1..Len(evs) |-> to_datetime(evs[n].event_ts)]

ItemCount(oid) ==
  Cardinality({n \in 1..Len(order_items) : order_items[n].order_id = oid})

\* the order file's row of oid is a delivered order with a time stamp that parses
Qualifies(oid) ==
  \E n \in 1..Len(orders_csv) :
    /\ orders_csv[n].order_id = oid
    /\ orders_csv[n].order_status = "delivered"
    /\ to_datetime(orders_csv[n].order_purchase_timestamp) # NaT

\* the purchase time the orders file records for oid
RecordedPurchaseTime(oid) ==
  to_datetime(orders_csv[CHOOSE n \in 1..Len(orders_csv) :
                           orders_csv[n].order_id = oid].order_purchase_timestamp)

FunnelLog == SelectSeq(sessions, LAMBDA x : x.kind = "funnel")
BrowseLog == SelectSeq(sessions, LAMBDA x : x.kind = "browse")

\* the events the funnel loop appended are events[1..FunnelEventCount]
FunnelEventCount == IF BrowseLog = <<>> THEN Len(events) ELSE BrowseLog[1].first - 1

\* the events the n-th generated session appended
SessionSlice(n) ==
  SubSeq(events, sessions[n].first,
         IF n < Len(sessions) THEN sessions[n + 1].first - 1 ELSE Len(events))

FunnelTypes(k) ==
  <<"page_view">> \o [j \in 1..k |-> "view_product"]
  \o <<"add_to_cart", "checkout", "purchase">>

\* the selected orders the funnel loop has been through
Processed ==
  IF pc = "load" THEN <<>>
  ELSE IF pc = "funnel" THEN SubSeq(delivered_orders, 1, i - 1)
  ELSE delivered_orders

PurchaseOrderIds ==
  LET p == SelectSeq(events, LAMBDA e : e.event_type = "purchase")
  IN  [n \in 1..Len(p) |-> p[n].order_id]

\* C1: the events a funnel session appends for an order with n >= 1 items
\* are, in generation order, one page_view, min(3, n) view_product, one
\* add_to_cart on the first viewed product, one checkout and one purchase
\* carrying the order's id; they are all the events of the session.
C1_FunnelSequence ==
  \A n \in 1..Len(sessions) :
    sessions[n].kind = "funnel" =>
      \A sl \in {SessionSlice(n)} :
        LET cnt == ItemCount(sessions[n].order_id)
            k == IF cnt < 3 THEN cnt ELSE 3
        IN  /\ cnt >= 1
            /\ [j \in 1..Len(sl) |-> sl[j].event_type] = FunnelTypes(k)
            /\ sl[k + 2].product_id = sl[2].product_id
            /\ \A j \in 2..(k + 2) :
                 \E m \in 1..Len(order_items) :
                   /\ order_items[m].order_id = sessions[n].order_id
                   /\ order_items[m].product_id = sl[j].product_id
            /\ sl[k + 4].order_id = sessions[n].order_id
            /\ \A j \in 1..Len(sl) : sl[j].session_id = sessions[n].session_id
            /\ Cardinality({m \in 1..Len(events) :
                              events[m].session_id = sessions[n].session_id}) = k + 4

\* a finished run with a funnel session of three views (four items) and one
\* of two views (two items)
C1_Witness ==
  /\ pc = "done"
  /\ \E a, b \in 1..Len(sessions) :
       /\ sessions[a].kind = "funnel" /\ ItemCount(sessions[a].order_id) = 4
       /\ sessions[b].kind = "funnel" /\ ItemCount(sessions[b].order_id) = 2

\* C2: the purchase events are, in order, those of the selected orders that
\* have order items, one each; every selected order is a delivered order
\* of the file with a time stamp that parses; an order that is not, or that
\* has no items, has no event; every funnel event belongs to the session
\* of a purchase at or after it; there are as many funnel sessions as
\* purchases, and at most MAX_PURCHASE_SESSIONS.
C2_SessionsMatchOrders ==
  \A p \in {PurchaseOrderIds} :
  \A q \in {SelectSeq(Processed, LAMBDA r : ItemCount(r.order_id) >= 1)} :
    /\ p = [n \in 1..Len(q) |-> q[n].order_id]
    /\ \A a, b \in 1..Len(delivered_orders) :
         a # b => delivered_orders[a].order_id # delivered_orders[b].order_id
    /\ \A n \in 1..Len(delivered_orders) : Qualifies(delivered_orders[n].order_id)
    /\ \A n \in 1..Len(orders_csv) :
         (~Qualifies(orders_csv[n].order_id) \/ ItemCount(orders_csv[n].order_id) = 0)
           => \A m \in 1..Len(events) : events[m].order_id # orders_csv[n].order_id
    /\ \A n \in 1..FunnelEventCount :
         \E m \in n..Len(events) :
           /\ events[m].event_type = "purchase"
           /\ events[m].session_id = events[n].session_id
    /\ Cardinality({events[n].session_id : n \in 1..FunnelEventCount}) = Len(p)
    /\ Len(p) <= MAX_PURCHASE_SESSIONS

\* a finished run on a file with more qualifying orders than the cap, in
\* which a selected order had no items and another got its session
C2_Witness ==
  /\ pc = "done"
  /\ Cardinality({n \in 1..Len(orders_csv) : Qualifies(orders_csv[n].order_id)})
       > MAX_PURCHASE_SESSIONS
  /\ \E n \in 1..Len(delivered_orders) : ItemCount(delivered_orders[n].order_id) = 0
  /\ Len(PurchaseOrderIds) = 1

\* C3: in every session the event_ts of its events do not decrease in
\* generation order; a purchase event follows its session's checkout, not
\* earlier than it, at the purchase time the orders file records.
C3_SessionTimesNonDecreasing ==
  \A ts \in {Times(events)} :
    /\ \A a \in 1..Len(events) : \A b \in (a + 1)..Len(events) :
         events[a].session_id = events[b].session_id => ts[a] <= ts[b]
    /\ \A n \in 1..Len(events) :
         events[n].event_type = "purchase" =>
           /\ ts[n] = RecordedPurchaseTime(events[n].order_id)
           /\ n > 1
           /\ events[n - 1].event_type = "checkout"
           /\ events[n - 1].session_id = events[n].session_id
           /\ ts[n - 1] <= ts[n]

\* a finished run with a funnel session and a browsing session
C3_Witness ==
  /\ pc = "done"
  /\ FunnelLog # <<>>
  /\ BrowseLog # <<>>
  /\ Len(events) - FunnelEventCount >= 2

\* the lone session of SpecSession: its checkout and purchase times
ProbeCheckout == to_datetime(events[Len(events) - 1].event_ts)
ProbePurchase == to_datetime(events[Len(events)].event_ts)

\* the session in which the checkout comes latest against the purchase:
\* three views, the base offset at its least (5 minutes) and each of the
\* five steps at its most (40 seconds)
ProbeLatest ==
  /\ pc = "made"
  /\ Len(probe.oi_sample) = 3
  /\ probe.d[3] = 0
  /\ \A j \in 4..Len(probe.d) : probe.d[j] = DrawMax

\* C4 as claimed: some funnel session has its checkout later than its
\* purchase.  The checkout's lead shrinks with the base offset and grows
\* with each step and each view, so there is one exactly if the session of
\* ProbeLatest is one.
C4_CheckoutMayPostdate == ProbeLatest => ProbeCheckout > ProbePurchase

\* C4 as amended: the checkout of a funnel session is at least 100 seconds
\* earlier than its purchase.
C4_CheckoutBeforePurchase ==
  (pc = "made" /\ events # <<>>) =>
    /\ events[Len(events) - 1].event_type = "checkout"
    /\ events[Len(events)].event_type = "purchase"
    /\ ProbeCheckout + 100 <= ProbePurchase

\* the latest checkout there is: 100 seconds before the purchase
C4_Witness == ProbeLatest /\ ProbeCheckout + 100 = ProbePurchase

Count(s, e) == Cardinality({n \in 1..Len(s) : s[n] = e})

\* C5: the written table has as many rows as there are accumulated events
\* and holds each of them as often as the event list does (so it holds
\* nothing else), and its rows' event_ts do not decrease.
C5_OutputSortedPermutation ==
  written =>
    /\ Len(output) = Len(events)
    /\ \A n \in 1..Len(events) : Count(output, events[n]) = Count(events, events[n])
    /\ \A ts \in {Times(output)} : \A j \in 1..(Len(ts) - 1) : ts[j] <= ts[j + 1]

\* a written table whose rows are not in generation order, two of them
\* with the same event_ts
C5_Witness ==
  /\ written
  /\ output # events
  /\ \E j \in 1..(Len(output) - 1) : output[j].event_ts = output[j + 1].event_ts

NoQualifyingOrder == \A n \in 1..Len(orders_csv) : ~Qualifies(orders_csv[n].order_id)

\* C6: with no delivered order whose time stamp parses, the run never gets
\* past loading other than into its error: no event, no session, no file.
C6_AbortsWithoutDelivered ==
  NoQualifyingOrder =>
    /\ pc \in {"load", "error"}
    /\ events = <<>>
    /\ sessions = <<>>
    /\ ~written
    /\ output = <<>>

\* the run has aborted on a file holding a delivered order with a broken
\* time stamp and an order of another status
C6_Witness ==
  /\ NoQualifyingOrder
  /\ pc = "error"
  /\ \E n \in 1..Len(orders_csv) : orders_csv[n].order_status = "delivered"
  /\ \E n \in 1..Len(orders_csv) : orders_csv[n].order_status # "delivered"

\* C7: a browsing event is a page_view, view_product or add_to_cart and has
\* no order_id; a checkout or purchase event is a funnel session's.
C7_BrowsingNeverConverts ==
  /\ \A n \in (FunnelEventCount + 1)..Len(events) :
       /\ events[n].event_type \in {"page_view", "view_product", "add_to_cart"}
       /\ events[n].order_id = ""
  /\ \A n \in 1..Len(events) :
       events[n].event_type \in {"checkout", "purchase"} =>
         /\ n <= FunnelEventCount
         /\ \E m \in 1..Len(FunnelLog) : FunnelLog[m].session_id = events[n].session_id

\* a finished run whose browsing session took the last branch of the draw
C7_Witness ==
  /\ pc = "done"
  /\ \E n \in (FunnelEventCount + 1)..Len(events) : events[n].event_type = "add_to_cart"
  /\ \E n \in (FunnelEventCount + 1)..Len(events) : events[n].event_type = "view_product"

\* C8: events of one session_id agree on device, source, is_authenticated
\* and the customer's id, city and state; the device and the source are of
\* the listed ones; a funnel event has is_authenticated = 1.
C8_SessionFieldsConstant ==
  /\ \A a \in 1..Len(events) : \A b \in (a + 1)..Len(events) :
       events[a].session_id = events[b].session_id =>
         /\ events[a].device_type = events[b].device_type
         /\ events[a].traffic_source = events[b].traffic_source
         /\ events[a].is_authenticated = events[b].is_authenticated
         /\ events[a].customer_id = events[b].customer_id
         /\ events[a].customer_city = events[b].customer_city
         /\ events[a].customer_state = events[b].customer_state
  /\ \A n \in 1..Len(events) :
       /\ events[n].device_type \in {"desktop", "mobile", "tablet"}
       /\ events[n].traffic_source \in {"direct", "seo", "ads", "email", "social"}
  /\ \A n \in 1..FunnelEventCount : events[n].is_authenticated = 1

\* a finished run with three sessions, two of them on different devices,
\* one not authenticated
C8_Witness ==
  /\ pc = "done"
  /\ Len(sessions) = 3
  /\ \E a, b \in 1..Len(events) :
       /\ events[a].device_type # events[b].device_type
       /\ events[a].is_authenticated # events[b].is_authenticated

\* what two runs of the funnel phase are to agree on: each event's type,
\* time and order, and which events share a session
Structure(evs) ==
  [n \in 1..Len(evs) |->
     [event_type |-> evs[n].event_type,
      event_ts |-> evs[n].event_ts,
      order_id |-> evs[n].order_id,
      session |-> CHOOSE m \in 1..n :
                    /\ evs[m].session_id = evs[n].session_id
                    /\ \A l \in 1..(m - 1) : evs[l].session_id # evs[n].session_id]]

\* C9: two runs on the same files end their funnel phase with the same
\* sessions of the same orders in the same order, the same event types in
\* each and the same event times.
C9_FunnelStructureDeterministic ==
  pcB = "done" => Structure(events) = Structure(eventsB)

\* two finished funnel phases that differ in a viewed product and in every
\* session id
C9_Witness ==
  /\ pcB = "done"
  /\ Len(events) >= 12
  /\ Len(events) = Len(eventsB)
  /\ \E n \in 1..Len(events) : events[n].product_id # eventsB[n].product_id
  /\ \A n \in 1..Len(events) : events[n].session_id # eventsB[n].session_id

\* C10: a browsing event with is_authenticated = 1 carries a customer id
\* of the customers table, one with is_authenticated = 0 carries no
\* customer id, city or state.
C10_AuthMatchesIdentity ==
  \A n \in (FunnelEventCount + 1)..Len(events) :
    /\ events[n].is_authenticated = 1 =>
         \E m \in 1..Len(customers) : customers[m].customer_id = events[n].customer_id
    /\ events[n].is_authenticated = 0 =>
         /\ events[n].customer_id = ""
         /\ events[n].customer_city = ""
         /\ events[n].customer_state = ""
====
